---------------------------- MODULE Spec2Model ----------------------------
(***************************************************************************)
(* A model of talktosc: the APDU builder and its command chaining          *)
(* (src/apdus.rs; src/lib.rs holds the same APDU::new line for line), the   *)
(* sender sendapdu (src/lib.rs) and the BER-TLV decoder read_single /      *)
(* read_list (src/tlvs.rs).                                                *)
(*                                                                         *)
(* Two specifications share the variables:                                 *)
(*   SpecAPDU  builds an APDU with APDU::new and sends it with sendapdu;   *)
(*   SpecTLV   decodes a byte buffer with read_single and read_list.       *)
(* A Rust panic (an out-of-range slice or drain, an unwrap of an Err) is   *)
(* an outcome of its own, kind "panic", never folded into an error value.  *)
(***************************************************************************)
EXTENDS Integers, Sequences, FiniteSets, TLC

\* ------------------------------------------------------------------ bounds

\* The longest payload handed to APDU::new (two full chaining blocks and more).
MaxLen == 510

\* The longest buffer handed to the TLV decoder.
MaxBuf == 4

\* ------------------------------------------------------- program constants

\* The number of payload bytes of one chaining packet.
ChainLen == 254

\* The class byte of a chaining packet.
ChainCla == 16

\* ----------------------------------------------------- Rust integer helpers

RECURSIVE BitAnd(_, _)
\* a & b on naturals.
BitAnd(a, b) ==
    IF a = 0 \/ b = 0 THEN 0
    ELSE (a % 2) * (b % 2) + 2 * BitAnd(a \div 2, b \div 2)

RECURSIVE BitOr(_, _)
\* a | b on naturals.
BitOr(a, b) ==
    IF a = 0 THEN b
    ELSE IF b = 0 THEN a
    ELSE (IF a % 2 = 1 \/ b % 2 = 1 THEN 1 ELSE 0) + 2 * BitOr(a \div 2, b \div 2)

\* a << 8 on u16: the bits shifted past bit 15 are dropped.
Shl8U16(a) == (a * 256) % 65536

\* x as u8.
AsU8(x) == x % 256

\* ---------------------------------------------------------------- variables

VARIABLES
    \* APDU::new and the APDU it builds
    cla, ins, p1, p2,   \* the arguments of APDU::new, the fields of the APDU
    inputdata,          \* Option<Vec<u8>>: <<>> is None, <<d>> is Some(d)
    data,               \* APDU.data
    index, oindex,      \* the loop counters of APDU::new
    iapdus,             \* APDU.iapdus
    \* sendapdu
    iter_index,         \* APDUIterator.index
    i,                  \* the packets transmitted so far
    res,                \* the Vec<u8> sendapdu returns
    sent,               \* history: the packets handed to card.transmit, in order
    replies,            \* history: the replies card.transmit gave, in order
    apc,                \* position in APDU::new / sendapdu
    \* the TLV decoder
    orig_data,          \* the buffer handed to read_single / read_list
    recursive,          \* the flag handed to them
    tagres,             \* read_single after its tag field
    lenres,             \* read_single after its length field
    result,             \* what read_single ends with
    listres,            \* what read_list ends with
    tpc,                \* position in read_single / read_list
    \* read_list with its calls spelled out
    stack,              \* the read_list calls in progress, the outermost first
    steps,              \* history: the loop turns and returns taken so far
    \* TLV::find_tag
    tree,               \* the TLV searched (self)
    tag,                \* the tag looked for
    found,              \* Option<TLV>: <<>> is None, <<n>> is Some(n)
    fpc,                \* position in find_tag
    \* Response
    input,              \* the bytes handed to Response::new
    response,           \* what Response::new returned
    okay,               \* <<b>> once is_okay() has answered b
    avail,              \* <<o>> once availble_response() has answered o
    rpc                 \* position in Response::new and its queries

apduvars == <<cla, ins, p1, p2, inputdata, data, index, oindex, iapdus,
              iter_index, i, res, sent, replies, apc>>

tlvvars == <<orig_data, recursive, tagres, lenres, result, listres, tpc>>

termvars == <<stack, steps>>

findvars == <<tree, tag, found, fpc>>

respvars == <<input, response, okay, avail, rpc>>

\* What the APDU side and the decoder leave alone.
auxvars == <<termvars, findvars, respvars>>

vars == <<apduvars, tlvvars, termvars, findvars, respvars>>

\* The stack of read_list calls at rest.
TermIdle == stack = <<>> /\ steps = 0

\* find_tag at rest.
FindIdle ==
    /\ tree = [t |-> 0, l |-> 0, v |-> <<>>, subs |-> <<>>]
    /\ tag = 0 /\ found = <<>> /\ fpc = "idle"

\* Response at rest.
RespIdle ==
    /\ input = <<>>
    /\ response = [kind |-> "none", err |-> <<>>, data |-> <<>>, sw1 |-> 0, sw2 |-> 0]
    /\ okay = <<>> /\ avail = <<>> /\ rpc = "idle"

\* ------------------------------------------------------------ APDU::new

\* The inputs of APDU::new.
ClaSet == {0, 16}
InsSet == {42, 218}
P1Set == {128}
P2Set == {134}
Seeds == {7}

\* A payload of n bytes, each byte different from its 255 neighbours.
Payload(n, seed) == [k \in 1..n |-> (seed + k) % 256]

Inputs == {<<>>} \cup {<<Payload(n, s)>> : n \in 0..MaxLen, s \in Seeds}

\* data[a..b] of Rust: the bytes at positions a .. b-1 (zero-based).
Slice(d, a, b) == SubSeq(d, a + 1, b)

\* A slip in the loop condition: >= for >.
LoopCondLax(len, idx) == len >= idx * ChainLen

\* while data.len() > index * 254
LoopCond(len, idx) == len > idx * ChainLen

\* vec![0x10, ins, p1, p2, 254]
ChainHeader(n, q1, q2) == <<ChainCla, n, q1, q2, ChainLen>>

\* A slip in the slice: one byte short of _cindex.
ChainPacketShort(n, q1, q2, d, o, cidx) ==
    ChainHeader(n, q1, q2) \o Slice(d, o, cidx - 1)

\* let mut res = vec![0x10, ins, p1, p2, 254];
\* res.extend(data[oindex.._cindex]): one chaining packet.
ChainPacket(n, q1, q2, d, o, cidx) ==
    ChainHeader(n, q1, q2) \o Slice(d, o, cidx)

\* vec![cla, ins, p1, p2, (data.len() - oindex) as u8] + data[oindex..length]
FinalPacket(c, n, q1, q2, d, o) ==
    <<c, n, q1, q2, AsU8(Len(d) - o)>> \o Slice(d, o, Len(d))

\* The decoder at rest, while the APDU side runs.
TLVIdle ==
    /\ orig_data = <<>> /\ recursive = FALSE
    /\ tagres = [kind |-> "none", t |-> 0, composite |-> FALSE, rest |-> <<>>]
    /\ lenres = [kind |-> "none", l |-> 0, rest |-> <<>>]
    /\ result = [kind |-> "none", node |-> <<>>, rest |-> <<>>]
    /\ listres = [kind |-> "none", nodes |-> <<>>]
    /\ tpc = "idle"

InitAPDU ==
    /\ TLVIdle /\ TermIdle /\ FindIdle /\ RespIdle
    /\ cla \in ClaSet /\ ins \in InsSet /\ p1 \in P1Set /\ p2 \in P2Set
    /\ inputdata \in Inputs
    /\ data = <<>> /\ index = 1 /\ oindex = 0 /\ iapdus = <<>>
    /\ iter_index = 0 /\ i = 0 /\ res = <<>> /\ sent = <<>> /\ replies = <<>>
    /\ apc = "new"

\* let data = match inputdata { Some(data) => data, None => vec![] };
NewBegin ==
    /\ apc = "new"
    /\ data' = (IF inputdata = <<>> THEN <<>> ELSE inputdata[1])
    /\ index' = 1 /\ oindex' = 0 /\ iapdus' = <<>>
    /\ apc' = "loop"
    /\ UNCHANGED tlvvars
    /\ UNCHANGED auxvars
    /\ UNCHANGED <<cla, ins, p1, p2, inputdata, iter_index, i, res, sent, replies>>

\* One turn of the while loop: a chaining packet.
NewChain ==
    /\ apc = "loop"
    /\ LoopCond(Len(data), index)
    /\ LET cindex == index * ChainLen
       IN /\ iapdus' = Append(iapdus, ChainPacket(ins, p1, p2, data, oindex, cindex))
          /\ index' = index + 1
          /\ oindex' = cindex
    /\ UNCHANGED tlvvars
    /\ UNCHANGED auxvars
    /\ UNCHANGED <<cla, ins, p1, p2, inputdata, data, iter_index, i, res, sent,
                   replies, apc>>

\* After the loop: the final packet; the APDU is built.
NewFinal ==
    /\ apc = "loop"
    /\ ~LoopCond(Len(data), index)
    /\ iapdus' = Append(iapdus, FinalPacket(cla, ins, p1, p2, data, oindex))
    /\ apc' = "built"
    /\ UNCHANGED tlvvars
    /\ UNCHANGED auxvars
    /\ UNCHANGED <<cla, ins, p1, p2, inputdata, data, index, oindex, iter_index,
                   i, res, sent, replies>>

\* ------------------------------------------------------------- sendapdu

\* What card.transmit hands back: Ok(reply bytes).
Replies == {<<144, 0>>, <<106, 130>>}

\* A slip in the test: the reply to the first packet is kept.
KeepFirst(n, l, old, resp) == IF n = 1 THEN resp ELSE old

\* if i == l { res = Vec::from(resp); }
Keep(n, l, old, resp) == IF n = l THEN resp ELSE old

\* let l = apdu.iapdus.len(); let mut i = 0; let mut res = Vec::new();
\* for actual_apdu in &apdu: into_iter sets index to 0.
SendBegin ==
    /\ apc = "built"
    /\ i' = 0 /\ res' = <<>> /\ iter_index' = 0
    /\ apc' = "send"
    /\ UNCHANGED tlvvars
    /\ UNCHANGED auxvars
    /\ UNCHANGED <<cla, ins, p1, p2, inputdata, data, index, oindex, iapdus,
                   sent, replies>>

\* APDUIterator::next gives Some(packet); card.transmit answers Ok(resp).
Transmit ==
    /\ apc = "send"
    /\ iter_index < Len(iapdus)
    /\ \E resp \in Replies :
          /\ sent' = Append(sent, iapdus[iter_index + 1])
          /\ replies' = Append(replies, resp)
          /\ i' = i + 1
          /\ res' = Keep(i + 1, Len(iapdus), res, resp)
    /\ iter_index' = iter_index + 1
    /\ UNCHANGED tlvvars
    /\ UNCHANGED auxvars
    /\ UNCHANGED <<cla, ins, p1, p2, inputdata, data, index, oindex, iapdus, apc>>

\* card.transmit answers Err: the unwrap panics, after the packet was handed over.
TransmitFails ==
    /\ apc = "send"
    /\ iter_index < Len(iapdus)
    /\ sent' = Append(sent, iapdus[iter_index + 1])
    /\ iter_index' = iter_index + 1
    /\ apc' = "panic"
    /\ UNCHANGED tlvvars
    /\ UNCHANGED auxvars
    /\ UNCHANGED <<cla, ins, p1, p2, inputdata, data, index, oindex, iapdus, i,
                   res, replies>>

\* APDUIterator::next gives None: return res.
SendReturn ==
    /\ apc = "send"
    /\ ~(iter_index < Len(iapdus))
    /\ apc' = "done"
    /\ UNCHANGED tlvvars
    /\ UNCHANGED auxvars
    /\ UNCHANGED <<cla, ins, p1, p2, inputdata, data, index, oindex, iapdus,
                   iter_index, i, res, sent, replies>>

NextAPDU ==
    \/ NewBegin
    \/ NewChain
    \/ NewFinal
    \/ SendBegin
    \/ Transmit
    \/ TransmitFails
    \/ SendReturn

SpecAPDU == InitAPDU /\ [][NextAPDU]_vars

\* ------------------------------------------------------ the TLV decoder

\* The bytes a buffer is made of: the fillers 0x00 and 0xFF, the values 0x01
\* and 0x02, the tags 0x5B (primitive), 0x61 (constructed) and 0x5F (the first
\* byte of a two-byte tag), the length bytes 0x80 .. 0x83.
Bytes == {0, 1, 2, 91, 95, 97, 128, 129, 130, 131, 255}

Buffers == UNION {[1..n -> Bytes] : n \in 0..MaxBuf}

\* What a step of read_single ends with when it panics or returns Err.
NoResult(kind) == [kind |-> kind, node |-> <<>>, rest |-> <<>>]

\* A slip in the mask of the second tag byte: 0xff for 0x7f.
TagLowNoMask(t2) == BitAnd(t2, 255)

\* t2 & 0x7f
TagLow(t2) == BitAnd(t2, 127)

\* let (t, mut data) = get(data); ... t = internal_t | (t2 & 0x7f);
\* get panics on an empty vector (drain(0..1)).
ReadTag(d) ==
    IF Len(d) = 0
    THEN [kind |-> "panic", t |-> 0, composite |-> FALSE, rest |-> <<>>]
    ELSE LET t == BitAnd(d[1], 255)
             d1 == Tail(d)
             composite == BitAnd(t, 32) = 32
         IN IF BitAnd(t, 31) = 31
            THEN IF Len(d1) = 0
                 THEN [kind |-> "panic", t |-> 0, composite |-> FALSE, rest |-> <<>>]
                 ELSE LET t2 == BitAnd(d1[1], 255)
                      IN IF BitAnd(t2, 31) = 31
                         THEN [kind |-> "err", t |-> 0, composite |-> FALSE,
                               rest |-> <<>>]
                         ELSE [kind |-> "ok",
                               t |-> BitOr(Shl8U16(t), TagLow(t2)),
                               composite |-> composite,
                               rest |-> Tail(d1)]
            ELSE [kind |-> "ok", t |-> t, composite |-> composite, rest |-> d1]

\* A slip in the byte order of the 0x82 form: little-endian.
LongLengthLE(first, second) == BitOr(Shl8U16(BitAnd(second, 255)), BitAnd(first, 255))

\* l = l & 0xff; let internal_l: u16 = l << 8_u8; l = internal_l | (second_l & 0xff);
LongLength(first, second) == BitOr(Shl8U16(BitAnd(first, 255)), BitAnd(second, 255))

\* let p = get(data); let mut l = p.0 as u16; ... the 0x81 and 0x82 forms, or Err.
ReadLength(d) ==
    IF Len(d) = 0
    THEN [kind |-> "panic", l |-> 0, rest |-> <<>>]
    ELSE LET l == d[1]
             d1 == Tail(d)
         IN IF l = 129
            THEN IF Len(d1) = 0
                 THEN [kind |-> "panic", l |-> 0, rest |-> <<>>]
                 ELSE [kind |-> "ok", l |-> BitAnd(d1[1], 255), rest |-> Tail(d1)]
            ELSE IF l = 130
            THEN IF Len(d1) < 2
                 THEN [kind |-> "panic", l |-> 0, rest |-> <<>>]
                 ELSE [kind |-> "ok", l |-> LongLength(d1[1], d1[2]),
                       rest |-> Tail(Tail(d1))]
            ELSE IF l >= 128
            THEN [kind |-> "err", l |-> 0, rest |-> <<>>]
            ELSE [kind |-> "ok", l |-> l, rest |-> d1]

RECURSIVE ReadValue(_, _, _)
RECURSIVE read_single(_, _)
RECURSIVE ListLoop(_, _, _)
RECURSIVE read_list(_, _)

\* let v = if composite { data[..len] } else { data.drain(0..len) };
\* if recursive && composite { subs = read_list(data, true); return Ok((.., vec![])) }
\* Ok((TLV { t, l, v, subs }, data))
\* The slice and the drain panic when len is past the end of data.
ReadValue(tg, ln, rec) ==
    LET d == ln.rest
        len == ln.l
    IN IF len > Len(d)
       THEN NoResult("panic")
       ELSE LET v == SubSeq(d, 1, len)
                d1 == IF tg.composite THEN d ELSE SubSeq(d, len + 1, Len(d))
            IN IF rec /\ tg.composite
               THEN LET sub == read_list(d1, TRUE)
                    IN IF sub.kind = "ok"
                       THEN [kind |-> "ok",
                             node |-> <<[t |-> tg.t, l |-> len, v |-> v,
                                         subs |-> sub.nodes]>>,
                             rest |-> <<>>]
                       ELSE NoResult("panic")
               ELSE [kind |-> "ok",
                     node |-> <<[t |-> tg.t, l |-> len, v |-> v, subs |-> <<>>]>>,
                     rest |-> d1]

\* read_single(orig_data, recursive): the three fields in turn.
read_single(d, rec) ==
    LET tg == ReadTag(d)
    IN IF tg.kind # "ok"
       THEN NoResult(tg.kind)
       ELSE LET ln == ReadLength(tg.rest)
            IN IF ln.kind # "ok"
               THEN NoResult(ln.kind)
               ELSE ReadValue(tg, ln, rec)

\* The while loop of read_list: one filler byte is dropped, then read_single is
\* called on what is left (empty or not) and its result unwrapped.
ListLoop(d, rec, acc) ==
    IF Len(d) = 0
    THEN [kind |-> "ok", nodes |-> acc]
    ELSE LET d1 == IF d[1] = 255 \/ d[1] = 0 THEN Tail(d) ELSE d
             tmp == read_single(d1, rec)
         IN IF tmp.kind = "ok"
            THEN ListLoop(tmp.rest, rec, Append(acc, tmp.node[1]))
            ELSE [kind |-> "panic", nodes |-> <<>>]

\* read_list(orig_data, recursive)
read_list(d, rec) == ListLoop(d, rec, <<>>)

\* The APDU side at rest, while the decoder runs.
APDUIdle ==
    /\ cla = 0 /\ ins = 0 /\ p1 = 0 /\ p2 = 0
    /\ inputdata = <<>>
    /\ data = <<>> /\ index = 1 /\ oindex = 0 /\ iapdus = <<>>
    /\ iter_index = 0 /\ i = 0 /\ res = <<>> /\ sent = <<>> /\ replies = <<>>
    /\ apc = "idle"

InitTLV ==
    /\ APDUIdle /\ TermIdle /\ FindIdle /\ RespIdle
    /\ orig_data \in Buffers
    /\ recursive \in BOOLEAN
    /\ tagres = [kind |-> "none", t |-> 0, composite |-> FALSE, rest |-> <<>>]
    /\ lenres = [kind |-> "none", l |-> 0, rest |-> <<>>]
    /\ result = NoResult("none")
    /\ listres = [kind |-> "none", nodes |-> <<>>]
    /\ tpc = "start"

\* read_single, the tag field (an Err or a panic ends the call).
DecodeTag ==
    /\ tpc = "start"
    /\ LET tg == ReadTag(orig_data)
       IN /\ tagres' = tg
          /\ tpc' = (IF tg.kind = "ok" THEN "len" ELSE "done")
          /\ result' = (IF tg.kind = "ok" THEN result ELSE NoResult(tg.kind))
    /\ UNCHANGED apduvars
    /\ UNCHANGED auxvars
    /\ UNCHANGED <<orig_data, recursive, lenres, listres>>

\* read_single, the length field (an Err or a panic ends the call).
DecodeLength ==
    /\ tpc = "len"
    /\ LET ln == ReadLength(tagres.rest)
       IN /\ lenres' = ln
          /\ tpc' = (IF ln.kind = "ok" THEN "value" ELSE "done")
          /\ result' = (IF ln.kind = "ok" THEN result ELSE NoResult(ln.kind))
    /\ UNCHANGED apduvars
    /\ UNCHANGED auxvars
    /\ UNCHANGED <<orig_data, recursive, tagres, listres>>

\* read_single, the value and the recursive call: the call returns.
DecodeValue ==
    /\ tpc = "value"
    /\ result' = ReadValue(tagres, lenres, recursive)
    /\ tpc' = "done"
    /\ UNCHANGED apduvars
    /\ UNCHANGED auxvars
    /\ UNCHANGED <<orig_data, recursive, tagres, lenres, listres>>

\* read_list(orig_data, recursive), as a whole.
ReadList ==
    /\ tpc = "start"
    /\ listres' = read_list(orig_data, recursive)
    /\ tpc' = "listdone"
    /\ UNCHANGED apduvars
    /\ UNCHANGED auxvars
    /\ UNCHANGED <<orig_data, recursive, tagres, lenres, result>>

NextTLV ==
    \/ DecodeTag
    \/ DecodeLength
    \/ DecodeValue
    \/ ReadList

SpecTLV == InitTLV /\ [][NextTLV]_vars

\* ------------------------------------------------- claims on the APDU side

\* The payload APDU::new was given (None is the empty payload).
OrigPayload == IF inputdata = <<>> THEN <<>> ELSE inputdata[1]

\* The bytes of a packet after its 5-byte header.
AfterHeader(pkt) == SubSeq(pkt, 6, Len(pkt))

RECURSIVE ConcatAfterHeader(_)
\* The bytes after the header of each packet, concatenated in order.
ConcatAfterHeader(pkts) ==
    IF pkts = <<>> THEN <<>>
    ELSE AfterHeader(Head(pkts)) \o ConcatAfterHeader(Tail(pkts))

\* The APDU is built: APDU::new has returned.
Built == apc \in {"built", "send", "done", "panic"}

\* C1: once APDU::new has returned, the bytes after the 5-byte header of each
\* packet of iapdus, concatenated in order, are exactly the payload given.
C1_RoundTrip == Built => ConcatAfterHeader(iapdus) = OrigPayload

\* C1 witness: a payload of three packets was built and reassembles.
C1_Witness ==
    /\ apc = "built" /\ Len(iapdus) = 3 /\ inputdata # <<>>
    /\ Len(inputdata[1]) = 509
    /\ ConcatAfterHeader(iapdus) = inputdata[1]

\* C2: for a payload of length L the packets are floor((L-1)/254) chaining
\* packets (none when L = 0), each [0x10, ins, p1, p2, 0xFE] and 254 payload
\* bytes, then one final packet [cla, ins, p1, p2, r] with r payload bytes,
\* 0 <= r <= 254; L <= 254 gives the one packet [cla, ins, p1, p2, L] + payload.
C2_PacketShape ==
    Built =>
        LET L == Len(OrigPayload)
            n == Len(iapdus)
            chained == IF L = 0 THEN 0 ELSE (L - 1) \div 254
            last == iapdus[n]
            r == Len(last) - 5
        IN /\ n = chained + 1
           /\ \A k \in 1..(n - 1) :
                 /\ SubSeq(iapdus[k], 1, 5) = <<16, ins, p1, p2, 254>>
                 /\ Len(iapdus[k]) = 5 + 254
                 /\ AfterHeader(iapdus[k]) = SubSeq(OrigPayload, 254 * (k - 1) + 1, 254 * k)
           /\ r >= 0 /\ r <= 254
           /\ r = L - 254 * chained
           /\ SubSeq(last, 1, 5) = <<cla, ins, p1, p2, r>>
           /\ (L <= 254 => iapdus = << <<cla, ins, p1, p2, L>> \o OrigPayload >>)

\* C2 witness: a remainder of exactly 254 bytes sits in the final packet, whose
\* class byte is the caller's and not the chaining one.
C2_Witness ==
    /\ apc = "built" /\ Len(OrigPayload) = 508 /\ cla = 0
    /\ Len(iapdus) = 2 /\ iapdus[1][1] = 16 /\ iapdus[2][1] = 0 /\ iapdus[2][5] = 254

\* C3: sendapdu hands the packets to the transport in the order of iapdus, each
\* once; the replies to the packets before the last leave the result untouched
\* and, whatever they hold, the remaining packets follow; the result is the
\* reply to the last packet.
C3_SendOrder ==
    /\ sent = SubSeq(iapdus, 1, Len(sent))
    /\ (apc = "send" => Len(sent) = iter_index /\ Len(replies) = iter_index)
    /\ (apc = "send" /\ iter_index < Len(iapdus) => res = <<>>)
    /\ (apc = "done" =>
           /\ sent = iapdus
           /\ Len(replies) = Len(iapdus)
           /\ res = replies[Len(replies)])

\* C3 witness: three packets went out, the first two answered with a failure
\* status, and the result is the reply to the third.
C3_Witness ==
    /\ apc = "done" /\ Len(sent) = 3
    /\ replies = << <<106, 130>>, <<106, 130>>, <<144, 0>> >>
    /\ res = <<144, 0>>

\* -------------------------------------------------- claims on the decoder

\* The low 5 bits of byte b are all set.
Low5Set(b) == b % 32 = 31

\* Bit 0x20 of byte b is set.
Bit20Set(b) == (b \div 32) % 2 = 1

\* read_single is past its tag field.
TagDone == tpc \in {"len", "value", "done"}

\* C8: with b1 the first byte, a tag whose low 5 bits are not all set is b1;
\* otherwise a second byte b2 is read and the tag is (b1 << 8) | (b2 & 0x7F),
\* unless the low 5 bits of b2 are all set too: then read_single returns an
\* error and no node. The node is constructed exactly when bit 0x20 of b1 is set.
C8_TagDecoding ==
    (TagDone /\ Len(orig_data) >= 1) =>
        LET b1 == orig_data[1]
        IN /\ (~Low5Set(b1) =>
                 /\ tagres.kind = "ok"
                 /\ tagres.t = b1
                 /\ tagres.rest = Tail(orig_data)
                 /\ tagres.composite = Bit20Set(b1))
           /\ (Low5Set(b1) /\ Len(orig_data) >= 2 =>
                 LET b2 == orig_data[2]
                 IN IF Low5Set(b2)
                    THEN /\ tagres.kind = "err"
                         /\ tpc = "done"
                         /\ result.kind = "err"
                         /\ result.node = <<>>
                    ELSE /\ tagres.kind = "ok"
                         /\ tagres.t = b1 * 256 + (b2 % 128)
                         /\ tagres.rest = Tail(Tail(orig_data))
                         /\ tagres.composite = Bit20Set(b1))

\* C8 witness: the two-byte tag 0x5F 0x81 is read as 0x5F01, bit 7 of the
\* second byte masked away, and is not constructed.
C8_Witness ==
    /\ tpc = "len" /\ Len(orig_data) >= 2
    /\ orig_data[1] = 95 /\ orig_data[2] = 129
    /\ tagres.kind = "ok" /\ tagres.t = 24321 /\ ~tagres.composite

\* read_single is past its length field.
LengthDone == tagres.kind = "ok" /\ tpc \in {"value", "done"}

\* C9: a length byte b < 0x80 is the length; 0x81 gives the next byte; 0x82 the
\* next two bytes big-endian; every other byte >= 0x80 makes read_single return
\* an error and no node.
C9_LengthDecoding ==
    (LengthDone /\ Len(tagres.rest) >= 1) =>
        LET d == tagres.rest
            b == d[1]
        IN /\ (b < 128 =>
                 lenres.kind = "ok" /\ lenres.l = b /\ lenres.rest = Tail(d))
           /\ (b = 129 /\ Len(d) >= 2 =>
                 /\ lenres.kind = "ok" /\ lenres.l = d[2]
                 /\ lenres.rest = SubSeq(d, 3, Len(d)))
           /\ (b = 130 /\ Len(d) >= 3 =>
                 /\ lenres.kind = "ok" /\ lenres.l = d[2] * 256 + d[3]
                 /\ lenres.rest = SubSeq(d, 4, Len(d)))
           /\ (b >= 128 /\ b # 129 /\ b # 130 =>
                 /\ lenres.kind = "err"
                 /\ tpc = "done"
                 /\ result.kind = "err"
                 /\ result.node = <<>>)

\* C9 witness: the length field 0x82 0x82 0x01 is read as 0x8201.
C9_Witness ==
    /\ tpc = "value" /\ orig_data = <<91, 130, 130, 1>>
    /\ lenres.kind = "ok" /\ lenres.l = 33281 /\ lenres.rest = <<>>

\* read_single has returned Ok.
SingleOk == tpc = "done" /\ result.kind = "ok"

\* The fewest bytes that encode a node: its tag, its length field, its value.
EncLen(n) ==
    (IF n.t < 256 THEN 1 ELSE 2)
    + (IF n.l < 128 THEN 1 ELSE IF n.l < 256 THEN 2 ELSE 3)
    + n.l

RECURSIVE EncLenSum(_)
\* The bytes that encode a sequence of nodes.
EncLenSum(ns) == IF ns = <<>> THEN 0 ELSE EncLen(Head(ns)) + EncLenSum(Tail(ns))

\* The tag t is a constructed one: bit 0x20 of its first byte.
IsComposite(t) == IF t < 256 THEN Bit20Set(t) ELSE Bit20Set(t \div 256)

RECURSIVE SubsFromValue(_)
\* A node decoded recursively, and every node under it: the subs of a
\* constructed node are the forest of its own value bytes, and fit in them.
SubsFromValue(n) ==
    /\ (IsComposite(n.t) =>
          /\ read_list(n.v, TRUE).kind = "ok"
          /\ n.subs = read_list(n.v, TRUE).nodes
          /\ EncLenSum(n.subs) <= Len(n.v))
    /\ \A k \in 1..Len(n.subs) : SubsFromValue(n.subs[k])

\* C4: a constructed tag decoded with recursive = true gives a node whose subs
\* are the forest decoded from the node's own value bytes, whatever follows the
\* composite in the buffer, and whose encodings fit in the value; so at every
\* depth.
C4_SubsFromOwnValue ==
    (SingleOk /\ recursive /\ tagres.composite) => SubsFromValue(result.node[1])

\* The bytes of orig_data taken by the tag and the length field.
HeaderLen == Len(orig_data) - Len(lenres.rest)

\* C5: for a non-constructed tag, or with recursive = false, the node's value
\* is the `length` bytes after the header, the remainder is the buffer without
\* the header and those bytes, and the node has no subs.
C5_ValueConsumed ==
    (SingleOk /\ (~tagres.composite \/ ~recursive)) =>
        LET n == result.node[1]
        IN /\ n.l = lenres.l
           /\ n.v = SubSeq(orig_data, HeaderLen + 1, HeaderLen + n.l)
           /\ result.rest = SubSeq(orig_data, HeaderLen + n.l + 1, Len(orig_data))
           /\ n.subs = <<>>

\* A filler byte.
IsFiller(b) == b = 0 \/ b = 255

\* The first object of buffer d, read by the rules of the tag and length
\* fields: its tag, length, value, and the bytes after it.
FirstObject(d) ==
    LET tg == ReadTag(d)
        ln == ReadLength(tg.rest)
        whole == tg.kind = "ok" /\ ln.kind = "ok" /\ ln.l <= Len(ln.rest)
    IN [ok |-> whole,
        t |-> tg.t,
        composite |-> tg.composite,
        l |-> ln.l,
        v |-> IF whole THEN SubSeq(ln.rest, 1, ln.l) ELSE <<>>,
        after |-> IF whole THEN SubSeq(ln.rest, ln.l + 1, Len(ln.rest)) ELSE <<>>]

RECURSIVE WellFormed(_, _, _)
\* Buffer d is a concatenation of well-formed objects (with filler bytes
\* between the top-level ones when fill is set); decoded recursively, the
\* value of a constructed object is such a concatenation too.
WellFormed(d, rec, fill) ==
    \/ d = <<>>
    \/ /\ fill
       /\ IsFiller(d[1])
       /\ WellFormed(Tail(d), rec, fill)
    \/ /\ ~IsFiller(d[1])
       /\ LET o == FirstObject(d)
          IN /\ o.ok
             /\ (rec /\ o.composite => WellFormed(o.v, rec, FALSE))
             /\ WellFormed(o.after, rec, fill)

RECURSIVE TopObjects(_)
\* The top-level objects of a well-formed buffer, in order.
TopObjects(d) ==
    IF d = <<>> THEN <<>>
    ELSE IF IsFiller(d[1]) THEN TopObjects(Tail(d))
    ELSE LET o == FirstObject(d)
         IN <<[t |-> o.t, l |-> o.l, v |-> o.v]>> \o TopObjects(o.after)

\* The tag, length and value of each node of a forest.
Triples(ns) == [k \in 1..Len(ns) |-> [t |-> ns[k].t, l |-> ns[k].l, v |-> ns[k].v]]

\* C6: read_list on a concatenation of k well-formed objects returns k
\* top-level nodes, in the order of the buffer, the i-th with the tag, length
\* and value of the i-th object.
C6_TopLevelNodes ==
    (tpc = "listdone" /\ WellFormed(orig_data, recursive, FALSE)) =>
        /\ listres.kind = "ok"
        /\ Triples(listres.nodes) = TopObjects(orig_data)

RECURSIVE Unfilled(_)
\* A well-formed buffer without the filler bytes around its top-level objects.
Unfilled(d) ==
    IF d = <<>> THEN <<>>
    ELSE IF IsFiller(d[1]) THEN Unfilled(Tail(d))
    ELSE LET o == FirstObject(d)
         IN SubSeq(d, 1, Len(d) - Len(o.after)) \o Unfilled(o.after)

\* C7: read_list of well-formed objects with filler bytes before, between or
\* after them returns what it returns for the buffer without the fillers; a
\* buffer of fillers only decodes to the empty forest.
C7_FillerSkipped ==
    (tpc = "listdone" /\ WellFormed(orig_data, recursive, TRUE)) =>
        /\ listres = read_list(Unfilled(orig_data), recursive)
        /\ ((\A k \in 1..Len(orig_data) : IsFiller(orig_data[k])) =>
               listres = [kind |-> "ok", nodes |-> <<>>])

\* C10: read_single and read_list end with a result or a failure value handed
\* to the caller, never with a panic.
C10_NeverAborts ==
    /\ (tpc = "done" => result.kind \in {"ok", "err"})
    /\ (tpc = "listdone" => listres.kind \in {"ok", "err"})

\* ---------------------------------------------------------- TLV::find_tag

\* The most nodes a searched tree has.
MaxNodes == 4

\* The tags and values of the nodes of a searched tree, and the tags looked for
\* (0x6E is on no node).
NodeTags == {91, 97}
NodeValues == {<<>>, <<1>>}
SearchTags == {91, 97, 110}

RECURSIVE TreesOfSize(_)
RECURSIVE ForestsOfSize(_)

\* The TLV values of n nodes: a node and, as its subs, a forest of n - 1 nodes.
TreesOfSize(n) ==
    {[t |-> nt, l |-> Len(nv), v |-> nv, subs |-> f] :
        nt \in NodeTags, nv \in NodeValues, f \in ForestsOfSize(n - 1)}

\* The Vec<TLV> values of m nodes in all.
ForestsOfSize(m) ==
    IF m = 0 THEN {<<>>}
    ELSE UNION {{<<first>> \o others : first \in TreesOfSize(k),
                                       others \in ForestsOfSize(m - k)} :
                k \in 1..m}

Trees == UNION {TreesOfSize(n) : n \in 1..MaxNodes}

\* if self.subs.len() == 0 { false } else { true }
if_recursive(n) == Len(n.subs) # 0

RECURSIVE find_tag(_, _)
RECURSIVE SearchSubsLast(_, _)
RECURSIVE SearchSubs(_, _)

\* A slip in the loop: the children are searched from the last to the first.
SearchSubsLast(subs, tg) ==
    IF subs = <<>> THEN <<>>
    ELSE LET r == find_tag(subs[Len(subs)], tg)
         IN IF r # <<>> THEN r ELSE SearchSubsLast(SubSeq(subs, 1, Len(subs) - 1), tg)

\* for tlv in &self.subs { match tlv.find_tag(tag) { Some(res) => return Some(res), _ => () } }
SearchSubs(subs, tg) ==
    IF subs = <<>> THEN <<>>
    ELSE LET r == find_tag(Head(subs), tg)
         IN IF r # <<>> THEN r ELSE SearchSubs(Tail(subs), tg)

\* TLV::find_tag(&self, tag): Some(self.clone()), the first hit under the
\* children, or None.
find_tag(n, tg) ==
    IF n.t = tg THEN <<n>>
    ELSE IF if_recursive(n) THEN SearchSubs(n.subs, tg)
    ELSE <<>>

\* The other sides at rest, while find_tag runs.
InitFind ==
    /\ APDUIdle /\ TLVIdle /\ TermIdle /\ RespIdle
    /\ tree \in Trees
    /\ tag \in SearchTags
    /\ found = <<>>
    /\ fpc = "start"

\* tree.find_tag(tag), as a whole.
FindTag ==
    /\ fpc = "start"
    /\ found' = find_tag(tree, tag)
    /\ fpc' = "done"
    /\ UNCHANGED <<tree, tag>>
    /\ UNCHANGED <<apduvars, tlvvars, termvars, respvars>>

NextFind == FindTag

SpecFind == InitFind /\ [][NextFind]_vars

\* ------------------------------------------------------ claims on find_tag

RECURSIVE PreOrder(_)
RECURSIVE PreOrderForest(_)

\* The nodes of a tree in depth-first pre-order: the node, then the subtree of
\* each child in the order of subs.
PreOrder(n) == <<n>> \o PreOrderForest(n.subs)

\* The nodes of a forest in depth-first pre-order.
PreOrderForest(f) ==
    IF f = <<>> THEN <<>> ELSE PreOrder(Head(f)) \o PreOrderForest(Tail(f))

\* found is the first node of tree in pre-order that carries tag, whole with
\* its subs, and None exactly when no node carries it.
FoundIsFirstPreOrder ==
    LET po == PreOrder(tree)
        hits == {k \in 1..Len(po) : po[k].t = tag}
    IN IF hits = {}
       THEN found = <<>>
       ELSE found = <<po[CHOOSE k \in hits : \A j \in hits : k <= j]>>

\* C11: find_tag returns the first node in depth-first pre-order whose tag is
\* the target, None exactly when no node of the tree carries it, and leaves the
\* searched tree as it was.
C11_FindTag ==
    [][(fpc = "start" /\ fpc' = "done") =>
           (tree' = tree /\ tag' = tag /\ FoundIsFirstPreOrder')]_vars

\* C11 witness: tag 0x5B sits on a grandchild under the first child and on the
\* second child; the grandchild, first in pre-order, is returned.
C11_Witness ==
    /\ fpc = "done" /\ tag = 91
    /\ tree.t = 97 /\ Len(tree.subs) = 2
    /\ tree.subs[1].t = 97
    /\ tree.subs[1].subs = <<[t |-> 91, l |-> 1, v |-> <<1>>, subs |-> <<>>]>>
    /\ tree.subs[2] = [t |-> 91, l |-> 0, v |-> <<>>, subs |-> <<>>]
    /\ found = <<[t |-> 91, l |-> 1, v |-> <<1>>, subs |-> <<>>]>>

\* ---------------------------------------------------------------- Response

\* The longest reply handed to Response::new.
MaxRaw == 4

\* The bytes a reply is made of: 0x90 0x00 (success), 0x61 (more data), others.
RespBytes == {0, 2, 97, 144, 171}

RawReplies == UNION {[1..n -> RespBytes] : n \in 0..MaxRaw}

\* A slip in the test: <= for <.
TooShortLax(length) == length <= 2

\* if length < 2
TooShort(length) == length < 2

\* Response::new(input): Err(ResponseError(length)), or Ok(Response { data, sw1, sw2 })
\* with data = input[0..length - 2], sw1 = input[length - 2], sw2 = input[length - 1].
Response_new(inp) ==
    LET length == Len(inp)
    IN IF TooShort(length)
       THEN [kind |-> "err", err |-> <<length>>, data |-> <<>>, sw1 |-> 0, sw2 |-> 0]
       ELSE [kind |-> "ok", err |-> <<>>,
             data |-> Slice(inp, 0, length - 2),
             sw1 |-> inp[(length - 2) + 1],
             sw2 |-> inp[(length - 1) + 1]]

\* A slip in the test: || for &&.
is_okay_either(r) == r.sw1 = 144 \/ r.sw2 = 0

\* if self.sw1 == 0x90 && self.sw2 == 0x00 { true } else { false }
is_okay(r) == r.sw1 = 144 /\ r.sw2 = 0

\* match (self.sw1, self.sw2) { (0x61, value) => Some(value), (_, _) => None }
availble_response(r) == IF r.sw1 = 97 THEN <<r.sw2>> ELSE <<>>

\* The other sides at rest, while a reply is parsed.
InitResp ==
    /\ APDUIdle /\ TLVIdle /\ TermIdle /\ FindIdle
    /\ input \in RawReplies
    /\ response = [kind |-> "none", err |-> <<>>, data |-> <<>>, sw1 |-> 0, sw2 |-> 0]
    /\ okay = <<>> /\ avail = <<>>
    /\ rpc = "start"

\* Response::new(input)
ResponseNew ==
    /\ rpc = "start"
    /\ response' = Response_new(input)
    /\ rpc' = (IF response'.kind = "ok" THEN "parsed" ELSE "failed")
    /\ UNCHANGED <<input, okay, avail>>
    /\ UNCHANGED <<apduvars, tlvvars, termvars, findvars>>

\* response.is_okay()
IsOkay ==
    /\ rpc = "parsed"
    /\ okay' = <<is_okay(response)>>
    /\ UNCHANGED <<input, response, avail, rpc>>
    /\ UNCHANGED <<apduvars, tlvvars, termvars, findvars>>

\* response.availble_response()
AvailbleResponse ==
    /\ rpc = "parsed"
    /\ avail' = <<availble_response(response)>>
    /\ UNCHANGED <<input, response, okay, rpc>>
    /\ UNCHANGED <<apduvars, tlvvars, termvars, findvars>>

NextResp ==
    \/ ResponseNew
    \/ IsOkay
    \/ AvailbleResponse

SpecResp == InitResp /\ [][NextResp]_vars

\* ------------------------------------------------------ claims on Response

\* C12: Response::new returns an error exactly when the reply has fewer than 2
\* bytes, and then builds no Response; for n >= 2 bytes it gives data = the
\* first n - 2 bytes, sw1 = the byte before the last, sw2 = the last.
C12_ResponseNew ==
    (rpc \in {"parsed", "failed"}) =>
        LET n == Len(input)
        IN /\ (response.kind = "err") = (n < 2)
           /\ (rpc = "failed") = (n < 2)
           /\ (n < 2 => response.kind # "ok" /\ okay = <<>> /\ avail = <<>>)
           /\ (n >= 2 =>
                 /\ response.kind = "ok"
                 /\ response.data = SubSeq(input, 1, n - 2)
                 /\ response.sw1 = input[n - 1]
                 /\ response.sw2 = input[n])

\* C12 witness: the two-byte reply 0x90 0x00 is parsed, with empty data.
C12_Witness ==
    /\ rpc = "parsed" /\ input = <<144, 0>>
    /\ response.kind = "ok" /\ response.data = <<>>
    /\ response.sw1 = 144 /\ response.sw2 = 0

\* C13: is_okay() is true exactly for (sw1, sw2) = (0x90, 0x00);
\* availble_response() is Some(sw2) exactly when sw1 = 0x61, else None; the two
\* are never both positive; neither query changes data, sw1 or sw2.
C13_StatusQueries ==
    (rpc = "parsed") =>
        LET n == Len(input)
            s1 == input[n - 1]
            s2 == input[n]
        IN /\ (okay # <<>> => okay[1] = (s1 = 144 /\ s2 = 0))
           /\ (avail # <<>> => avail[1] = (IF s1 = 97 THEN <<s2>> ELSE <<>>))
           /\ (okay = <<TRUE>> /\ avail # <<>> => avail[1] = <<>>)
           /\ response.data = SubSeq(input, 1, n - 2)
           /\ response.sw1 = s1
           /\ response.sw2 = s2

\* C13 witness: the reply 0xAB 0x61 0x02 is not okay and has 2 bytes to read.
C13_Witness ==
    /\ rpc = "parsed" /\ input = <<171, 97, 2>>
    /\ okay = <<FALSE>> /\ avail = << <<2>> >>
    /\ response.data = <<171>>

\* ------------------------------------------------- APDU::create_big_apdu

\* The longest payload of the unbroken run of lengths handed to create_big_apdu.
MaxBigLen == 300

\* The lengths around the end of u16, handed to create_big_apdu as well.
EdgeLengths == {65535, 65536}

BigLengths == (0..MaxBigLen) \cup EdgeLengths

\* data.len() as u16
AsU16(x) == x % 65536

\* A slip in the test: >= for >.
BigThresholdLax(len) == len >= 255

\* if len > 0xFF
BigThreshold(len) == len > 255

\* let mut res = vec![cla, ins, p1, p2]; then 0x00 and len.to_be_bytes(), or
\* len as u8; then res.extend(data.iter()).
BigPacket(c, n, q1, q2, d) ==
    LET len == AsU16(Len(d))
    IN <<c, n, q1, q2>>
       \o (IF BigThreshold(len)
           THEN <<0, len \div 256, len % 256>>
           ELSE <<AsU8(len)>>)
       \o d

\* The other sides at rest; create_big_apdu takes its payload as the Vec<u8>
\* data, which it moves into the APDU.
InitBig ==
    /\ TLVIdle /\ TermIdle /\ FindIdle /\ RespIdle
    /\ cla \in ClaSet /\ ins \in InsSet /\ p1 \in P1Set /\ p2 \in P2Set
    /\ inputdata = <<>>
    /\ data \in {Payload(n, s) : n \in BigLengths, s \in Seeds}
    /\ index = 1 /\ oindex = 0 /\ iapdus = <<>>
    /\ iter_index = 0 /\ i = 0 /\ res = <<>> /\ sent = <<>> /\ replies = <<>>
    /\ apc = "bignew"

\* APDU::create_big_apdu(cla, ins, p1, p2, data), as a whole.
CreateBigApdu ==
    /\ apc = "bignew"
    /\ iapdus' = <<BigPacket(cla, ins, p1, p2, data)>>
    /\ apc' = "bigbuilt"
    /\ UNCHANGED <<cla, ins, p1, p2, inputdata, data, index, oindex, iter_index, i, res,
                   sent, replies>>
    /\ UNCHANGED tlvvars
    /\ UNCHANGED auxvars

NextBig == CreateBigApdu

SpecBig == InitBig /\ [][NextBig]_vars

\* ---------------------------------------------- claims on create_big_apdu

\* C14: for a payload of L <= 65535 bytes create_big_apdu gives exactly one
\* packet: [cla, ins, p1, p2, L] + payload when L <= 255, and
\* [cla, ins, p1, p2, 0x00, L div 256, L mod 256] + payload when L > 255.
C14_ExtendedBuild ==
    (apc = "bigbuilt" /\ Len(data) <= 65535) =>
        LET L == Len(data)
        IN /\ Len(iapdus) = 1
           /\ (L <= 255 => iapdus[1] = <<cla, ins, p1, p2, L>> \o data)
           /\ (L > 255 =>
                 iapdus[1] = <<cla, ins, p1, p2, 0, L \div 256, L % 256>> \o data)

\* C14 witness: the longest payload of the claim, 65535 bytes, in one packet
\* with the length field 0x00 0xFF 0xFF.
C14_Witness ==
    /\ apc = "bigbuilt" /\ Len(data) = 65535
    /\ Len(iapdus) = 1 /\ Len(iapdus[1]) = 7 + 65535
    /\ SubSeq(iapdus[1], 5, 7) = <<0, 255, 255>>

\* The length field of packet pkt, read as one byte or as 0x00 and two bytes
\* big-endian, is the number of bytes that follow it.
LengthFieldExact(pkt) ==
    \/ /\ Len(pkt) >= 5
       /\ pkt[5] = Len(pkt) - 5
    \/ /\ Len(pkt) >= 7
       /\ pkt[5] = 0
       /\ pkt[6] * 256 + pkt[7] = Len(pkt) - 7

\* C15: in every packet of APDU::new and of create_big_apdu, for a payload of
\* any length, the number in the length field is the number of payload bytes
\* that follow it: the casts to u8 and u16 change no value.
C15_NoTruncation ==
    (Built \/ apc = "bigbuilt") =>
        /\ \A k \in 1..Len(iapdus) : LengthFieldExact(iapdus[k])
        /\ (apc = "bigbuilt" => AsU16(Len(data)) = Len(data))

\* ------------------------------------- read_list with its calls spelled out

\* A read_list call that has just been entered on the buffer b: `data` is the
\* loop's vector, `result` the nodes pushed so far, `single_in` the vector the
\* latest read_single of this call was given (<<>> before the first), `pend`
\* the node of a read_single that is waiting for its read_list(data, true).
Frame(b) ==
    [buf |-> b, data |-> b, result |-> <<>>, single_in |-> <<>>, pend |-> <<>>]

\* The innermost call in progress.
Top == stack[Len(stack)]

\* if data[0] == 0xff || data[0] == 0x00 { let p = get(data); data = p.1 }
SkipFiller(d) == IF d[1] = 255 \/ d[1] = 0 THEN Tail(d) ELSE d

\* read_single up to its value: the tag, the length, the value taken by the
\* slice (composite) or by the drain (primitive); `after` is data when the
\* header has been read, `rest` is data when the value has been taken.
SingleValue(d) ==
    LET none == [kind |-> "panic", t |-> 0, l |-> 0, v |-> <<>>,
                 composite |-> FALSE, after |-> <<>>, rest |-> <<>>]
        tg == ReadTag(d)
    IN IF tg.kind # "ok"
       THEN [none EXCEPT !.kind = tg.kind]
       ELSE LET ln == ReadLength(tg.rest)
            IN IF ln.kind # "ok"
               THEN [none EXCEPT !.kind = ln.kind]
               ELSE IF ln.l > Len(ln.rest)
               THEN none
               ELSE [kind |-> "ok", t |-> tg.t, l |-> ln.l,
                     v |-> SubSeq(ln.rest, 1, ln.l),
                     composite |-> tg.composite,
                     after |-> ln.rest,
                     rest |-> IF tg.composite
                              THEN ln.rest
                              ELSE SubSeq(ln.rest, ln.l + 1, Len(ln.rest))]

\* SingleValue of every buffer, as a table (@@ gives the function in explicit
\* form, each entry worked out once).
Decoded == [d \in Buffers |-> SingleValue(d)] @@ <<>>

\* A slip in the argument of the recursive call: the vector read_single was
\* given, header included.
RecArgOrig(single_in, after) == single_in

\* subs = read_list(data, true): data is what follows the header.
RecArg(single_in, after) == after

InitTerm ==
    /\ APDUIdle /\ FindIdle /\ RespIdle /\ TermIdle
    /\ orig_data = <<>>
    /\ recursive = FALSE
    /\ tagres = [kind |-> "none", t |-> 0, composite |-> FALSE, rest |-> <<>>]
    /\ lenres = [kind |-> "none", l |-> 0, rest |-> <<>>]
    /\ result = NoResult("none")
    /\ listres = [kind |-> "none", nodes |-> <<>>]
    /\ tpc = "start"

\* read_list(orig_data, recursive) is called: let mut result = Vec::new();
\* let mut data = orig_data.clone();
ListEnter ==
    /\ tpc = "start"
    /\ \E b \in Buffers, r \in BOOLEAN :
           /\ orig_data' = b
           /\ recursive' = r
           /\ stack' = <<Frame(b)>>
    /\ tpc' = "list"
    /\ UNCHANGED apduvars /\ UNCHANGED findvars /\ UNCHANGED respvars
    /\ UNCHANGED <<tagres, lenres, result, listres, steps>>

\* A turn of the while loop is about to start in the innermost call.
AtLoop == tpc = "list" /\ stack # <<>> /\ Top.pend = <<>>

\* A turn of the loop in which read_single panics or returns Err, which
\* unwrap() turns into a panic: every call in progress is abandoned.
ListPanic ==
    /\ AtLoop /\ Top.data # <<>>
    /\ Decoded[SkipFiller(Top.data)].kind # "ok"
    /\ listres' = [kind |-> "panic", nodes |-> <<>>]
    /\ tpc' = "listdone"
    /\ stack' = <<>>
    /\ steps' = steps + 1
    /\ UNCHANGED apduvars /\ UNCHANGED findvars /\ UNCHANGED respvars
    /\ UNCHANGED <<orig_data, recursive, tagres, lenres, result>>

\* A turn of the loop in which read_single returns without a recursive call:
\* data = tmp.1; result.push(tmp.0).
ListPush ==
    /\ AtLoop /\ Top.data # <<>>
    /\ LET d1 == SkipFiller(Top.data)
           s == Decoded[d1]
           n == Len(stack)
       IN /\ s.kind = "ok"
          /\ ~(recursive /\ s.composite)
          /\ stack' = [stack EXCEPT ![n] =
                 [@ EXCEPT !.data = s.rest,
                           !.result = Append(@, [t |-> s.t, l |-> s.l, v |-> s.v,
                                                 subs |-> <<>>]),
                           !.single_in = <<d1>>]]
    /\ steps' = steps + 1
    /\ UNCHANGED apduvars /\ UNCHANGED findvars /\ UNCHANGED respvars
    /\ UNCHANGED <<orig_data, recursive, tagres, lenres, result, listres, tpc>>

\* A turn of the loop in which read_single reaches `if recursive && composite`
\* and calls read_list.
ListCall ==
    /\ AtLoop /\ Top.data # <<>>
    /\ LET d1 == SkipFiller(Top.data)
           s == Decoded[d1]
           n == Len(stack)
       IN /\ s.kind = "ok"
          /\ recursive /\ s.composite
          /\ stack' = Append(
                 [stack EXCEPT ![n] =
                     [@ EXCEPT !.single_in = <<d1>>,
                               !.pend = <<[t |-> s.t, l |-> s.l, v |-> s.v,
                                           subs |-> <<>>]>>]],
                 Frame(RecArg(d1, s.after)))
    /\ steps' = steps + 1
    /\ UNCHANGED apduvars /\ UNCHANGED findvars /\ UNCHANGED respvars
    /\ UNCHANGED <<orig_data, recursive, tagres, lenres, result, listres, tpc>>

\* The loop of a nested call ends: its result becomes the subs of the waiting
\* node, read_single returns Ok((TLV { t, l, v, subs }, vec![])) and the loop
\* of the calling read_list takes the empty vector and pushes the node.
ListReturn ==
    /\ AtLoop /\ Top.data = <<>>
    /\ Len(stack) > 1
    /\ LET n == Len(stack)
           node == [stack[n - 1].pend[1] EXCEPT !.subs = Top.result]
       IN stack' = [SubSeq(stack, 1, n - 1) EXCEPT ![n - 1] =
              [@ EXCEPT !.data = <<>>,
                        !.result = Append(@, node),
                        !.pend = <<>>]]
    /\ steps' = steps + 1
    /\ UNCHANGED apduvars /\ UNCHANGED findvars /\ UNCHANGED respvars
    /\ UNCHANGED <<orig_data, recursive, tagres, lenres, result, listres, tpc>>

\* The loop of the outermost call ends: read_list returns result.
ListDone ==
    /\ AtLoop /\ Top.data = <<>>
    /\ Len(stack) = 1
    /\ listres' = [kind |-> "ok", nodes |-> Top.result]
    /\ tpc' = "listdone"
    /\ stack' = <<>>
    /\ steps' = steps + 1
    /\ UNCHANGED apduvars /\ UNCHANGED findvars /\ UNCHANGED respvars
    /\ UNCHANGED <<orig_data, recursive, tagres, lenres, result>>

NextTerm ==
    \/ ListEnter
    \/ ListPanic
    \/ ListPush
    \/ ListCall
    \/ ListReturn
    \/ ListDone

SpecTerm == InitTerm /\ [][NextTerm]_vars

\* The steps of a read_list call that has been entered.
RunTerm ==
    \/ ListPanic
    \/ ListPush
    \/ ListCall
    \/ ListReturn
    \/ ListDone

\* The code runs on: a call that has been entered takes the step it can take.
SpecTermFair == InitTerm /\ [][NextTerm]_vars /\ WF_vars(RunTerm)

\* The calls spelled out give what read_list gives as a whole.
StackAgreesWithReadList ==
    tpc = "listdone" => listres = read_list(orig_data, recursive)

\* Every read_single that has returned left its read_list a vector strictly
\* shorter than the one it was given.
RemainderShrinks ==
    \A k \in 1..Len(stack) :
        (stack[k].single_in # <<>> /\ stack[k].pend = <<>>)
            => Len(stack[k].data) < Len(stack[k].single_in[1])

\* Every nested read_list was called on a vector strictly shorter than the
\* vector of the read_single that called it and than the buffer of the
\* read_list that read_single belongs to.
CallShrinks ==
    \A k \in 2..Len(stack) :
        /\ stack[k - 1].single_in # <<>>
        /\ Len(stack[k].buf) < Len(stack[k - 1].single_in[1])
        /\ Len(stack[k - 1].single_in[1]) <= Len(stack[k - 1].buf)

\* The calls nested in the outermost one are at most as many as the bytes of
\* the buffer, and so are the loop turns and returns, the last return aside.
DepthBounded ==
    /\ Len(stack) <= Len(orig_data) + 1
    /\ steps <= Len(orig_data) + 1

\* C16: decoding always terminates. For every buffer and both values of
\* recursive, every read_single step leaves a remainder strictly shorter than
\* its input, every nested read_list call is made on a buffer strictly shorter
\* than the buffer of the call that made it, the nesting depth and the number
\* of steps are bounded by the length of the buffer, and read_list does stop
\* (by returning, or by the panic of an unwrap or of an out-of-range read).
C16_Terminates ==
    /\ [](RemainderShrinks /\ CallShrinks /\ DepthBounded)
    /\ (tpc = "list") ~> (tpc = "listdone")

\* Two calls nested in the outermost one, all three returned: [0x61, 0x02,
\* 0x61, 0x00] decoded in five steps.
C16_Witness ==
    /\ orig_data = <<97, 2, 97, 0>> /\ recursive
    /\ tpc = "listdone" /\ steps = 5
    /\ listres = [kind |-> "ok", nodes |->
           <<[t |-> 97, l |-> 2, v |-> <<97, 0>>, subs |->
               <<[t |-> 97, l |-> 0, v |-> <<>>, subs |-> <<>>]>>]>>]

=============================================================================
